---- MODULE Spec2Model ----
(***************************************************************************)
(* Overshoot Tool V1.0 (OVERSHOOT_TOOL_v1.py): a panel of widgets and the  *)
(* handler apply_overshoot, which reads the keyframes around the current   *)
(* time of every selected object and writes an extrapolated keyframe.      *)
(*                                                                         *)
(* Numbers.  The intensity slider moves in steps of 0.1, so an intensity   *)
(* is modelled by its number of tenths and every product by an intensity   *)
(* is divided by IntensityDen.  The keyframe values of the scene are       *)
(* multiples of IntensityDen, which keeps that division exact: the model   *)
(* is the exact arithmetic of calculate_overshoot, without the rounding    *)
(* of binary floating point.                                               *)
(*                                                                         *)
(* Host.  maya.cmds is the host's scripting surface.  Each host call the   *)
(* handlers make is an operator here, named after the call:                *)
(*   findKeyframe  the time of the nearest key strictly before / after a   *)
(*                 time, None when there is none (the handler tests the    *)
(*                 answer against None);                                   *)
(*   getAttr       the value of a channel at a time;                       *)
(*   setAttr, setKeyframe, select, listAttr, checkBox;                     *)
(*   mel_script    the two MEL commands of the colour step:                *)
(*                 performSetKeyframeArgList 1 {"0","animationList"} is    *)
(*                 the host's Set Key command: it keys, at the current     *)
(*                 time and with its current value, every keyable          *)
(*                 attribute of the objects selected at that moment;       *)
(*                 keyframe -time T -tds 1 sets the tick-draw-special      *)
(*                 flag of every key at time T on every animation curve    *)
(*                 of the objects selected at that moment.                 *)
(***************************************************************************)
EXTENDS Integers, Sequences, FiniteSets, TLC

(* ------------------------------ bounds -------------------------------- *)
\* times of the timeline: 1..MaxTime
MaxTime == 3
\* slider positions the user sets: 0, 0.1, ..., MaxIntensity * 0.1
MaxIntensity == 1
\* number of button presses in one behaviour of Spec
MaxApply == 1
\* number of button presses in one behaviour of SpecPresses
MaxPresses == 2
\* length of the selections the user makes
MaxSel == 2

(* ------------------------- program constants -------------------------- *)
\* sliderStep=0.1: an intensity is a number of tenths
IntensityDen == 10
\* value=0.1 of the intensity slider at construction
InitialIntensity == 1
\* Python's None as an answer of findKeyframe: no time of the timeline
None == 0

Times == 1..MaxTime

\* the literal list of line 54
SixAttrs == {"translateX", "translateY", "translateZ", "rotateX", "rotateY", "rotateZ"}

(* ------------------------------ the scene ------------------------------ *)
\* The scene the tool is run on.  rotateOrder matches the pattern rotate*
\* without being one of the six channels; visibility matches no pattern.
Objects == {"cube", "ball", "grp"}
AllAttrs == SixAttrs \cup {"rotateOrder", "visibility"}

\* keyable attributes of each object (the host's keyable flag)
Keyable(o, a) ==
    CASE o = "cube" -> TRUE
      [] o = "ball" -> a \in {"translateX", "visibility"}
      [] OTHER      -> a = "visibility"

\* the animation curves of the scene at construction: sets of <<time, value>>
SceneKeys(o, a) ==
    CASE o = "cube" /\ a = "translateX"  -> {<<1, 0>>, <<3, 10>>}
      [] o = "cube" /\ a = "translateY"  -> {<<1, 50>>, <<3, 50>>}
      [] o = "cube" /\ a = "translateZ"  -> {<<1, 0>>, <<2, 30>>}
      [] o = "cube" /\ a = "rotateX"     -> {<<3, 0>>}
      [] o = "cube" /\ a = "rotateZ"     -> {<<1, 0>>, <<2, 40>>, <<3, 10>>}
      [] o = "cube" /\ a = "rotateOrder" -> {<<1, 0>>, <<3, 10>>}
      [] o = "ball" /\ a = "translateX"  -> {<<1, 10>>, <<3, 0>>}
      [] o = "ball" /\ a = "translateY"  -> {<<1, 0>>, <<3, 10>>}
      [] o = "grp"  /\ a = "translateX"  -> {<<1, 0>>, <<3, 10>>}
      [] OTHER -> {}

\* the value the host's interpolation gives a channel between its keys
SceneValue(o, a) ==
    CASE o = "cube" /\ a = "translateX" -> 10
      [] o = "cube" /\ a = "translateY" -> 50
      [] o = "cube" /\ a = "rotateX"    -> 7
      [] o = "ball" /\ a = "translateX" -> 5
      [] OTHER -> 0

HasKey(ks, t) == \E k \in ks : k[1] = t
KeyValue(ks, t) == (CHOOSE k \in ks : k[1] = t)[2]

VARIABLES
    intensity_slider,      \* value of the floatSliderGrp, in tenths
    color_checkbox,        \* value of the "Green" checkbox
    check_all,             \* value of the "Check All" checkbox
    translate_checkboxes,  \* values of the three translate checkboxes
    rotate_checkboxes,     \* values of the three rotate checkboxes
    selection,             \* the host's selection list
    currentTime,           \* the host's current time
    val,                   \* val[o][a]: value of the channel at currentTime
    keys,                  \* keys[o][a]: the keys <<time, value>> of the curve
    tds,                   \* tds[o][a]: times of the keys drawn as special ticks
    lastOp,                \* the button handler that ran last, "panel" after any other event
    pre,                   \* scene and selection when the last apply_overshoot began
    prevDir,               \* direction of the apply_overshoot right before the last
    prevVal,               \* val when that earlier apply_overshoot began
    napplied               \* button presses so far

vars == <<intensity_slider, color_checkbox, check_all, translate_checkboxes,
          rotate_checkboxes, selection, currentTime, val, keys, tds,
          lastOp, pre, prevDir, prevVal, napplied>>

ui == <<intensity_slider, color_checkbox, check_all, translate_checkboxes, rotate_checkboxes>>
scene == <<val, keys, tds>>

Max(S) == CHOOSE x \in S : \A y \in S : y <= x
Min(S) == CHOOSE x \in S : \A y \in S : x <= y

(* ----------------------------- host calls ----------------------------- *)
\* a slip of findKeyframe: a key at the time itself counts as the previous one
findKeyframe_inclusive(ks, which, t) ==
    LET before == {k[1] : k \in {x \in ks : x[1] <= t}}
        after  == {k[1] : k \in {x \in ks : x[1] > t}}
    IN  IF which = "previous"
        THEN IF before = {} THEN None ELSE Max(before)
        ELSE IF after = {} THEN None ELSE Min(after)

\* cmds.findKeyframe(obj, attribute=attr, which=which, time=(t,))
findKeyframe(ks, which, t) ==
    LET before == {k[1] : k \in {x \in ks : x[1] < t}}
        after  == {k[1] : k \in {x \in ks : x[1] > t}}
    IN  IF which = "previous"
        THEN IF before = {} THEN None ELSE Max(before)
        ELSE IF after = {} THEN None ELSE Min(after)

\* cmds.getAttr(obj + "." + attr, time=t): the key at t, else the value at the current time
getAttr(st, o, a, t) ==
    IF HasKey(st.keys[o][a], t) THEN KeyValue(st.keys[o][a], t) ELSE st.val[o][a]

\* cmds.listAttr(obj, keyable=True, st=["translate*", "rotate*"]): None when nothing matches
MatchesPattern(a) == a \in SixAttrs \cup {"rotateOrder"}
listAttr(o) ==
    LET names == {a \in AllAttrs : Keyable(o, a) /\ MatchesPattern(a)}
    IN  [isNone |-> names = {}, names |-> names]

\* attribute_checkboxes[attr], then cmds.checkBox(..., query=True, value=True)
checkBox(a) ==
    CASE a = "translateX" -> translate_checkboxes[1]
      [] a = "translateY" -> translate_checkboxes[2]
      [] a = "translateZ" -> translate_checkboxes[3]
      [] a = "rotateX"    -> rotate_checkboxes[1]
      [] a = "rotateY"    -> rotate_checkboxes[2]
      [] a = "rotateZ"    -> rotate_checkboxes[3]

\* cmds.select(objects): the selection becomes the list
select(objs, st) == [st EXCEPT !.sel = objs]

\* cmds.setAttr(obj + "." + attr, value)
setAttr(st, o, a, value) == [st EXCEPT !.val[o][a] = value]

\* a slip of setKeyframe: the key is written and the curve after it is cut
setKeyframe_cut(st, o, a, t, value) ==
    [st EXCEPT !.keys[o][a] = {k \in @ : k[1] < t} \cup {<<t, value>>},
               !.val[o][a] = IF t = currentTime THEN value ELSE @]

\* cmds.setKeyframe(obj, attribute=attr, time=(t,), value=value): the key at t
\* is created or overwritten; at the current time the channel takes its value
setKeyframe(st, o, a, t, value) ==
    [st EXCEPT !.keys[o][a] = {k \in @ : k[1] # t} \cup {<<t, value>>},
               !.val[o][a] = IF t = currentTime THEN value ELSE @]

(* --------------------------- apply_overshoot --------------------------- *)
\* a slip of calculate_overshoot: the offset is subtracted
calculate_overshoot_minus(value, velocity, intensity) ==
    value - ((velocity * intensity) \div IntensityDen)

calculate_overshoot(value, velocity, intensity) ==
    value + ((velocity * intensity) \div IntensityDen)

\* lines 62-73 for one channel: [ok, value]
ChannelOvershoot(st, o, a, direction) ==
    LET previous_key == findKeyframe(st.keys[o][a], "previous", currentTime)
        next_key     == findKeyframe(st.keys[o][a], "next", currentTime)
    IN  IF previous_key # None /\ next_key # None /\ previous_key # next_key
        THEN LET prev_value    == getAttr(st, o, a, previous_key)
                 next_value    == getAttr(st, o, a, next_key)
                 current_value == getAttr(st, o, a, currentTime)
                 velocity      == (next_value - prev_value) * direction
             IN  [ok |-> TRUE,
                  value |-> calculate_overshoot(current_value, velocity, intensity_slider)]
        ELSE [ok |-> FALSE, value |-> 0]

\* the attributes among attrs that pass the filters of lines 53-65
ProcessedAttrs(st, o, attrs, direction) ==
    {a \in attrs : /\ a \in SixAttrs
                   /\ checkBox(a)
                   /\ ChannelOvershoot(st, o, a, direction).ok}

\* obj_data of lines 52-73
ObjData(st, o, attrs, direction) ==
    [a \in ProcessedAttrs(st, o, attrs, direction) |->
        ChannelOvershoot(st, o, a, direction).value]

\* a slip of the loop of line 46: an object without attributes ends the loop
RECURSIVE ObjectsData_break(_, _, _)
ObjectsData_break(st, objs, direction) ==
    IF objs = <<>> THEN <<>>
    ELSE LET obj == Head(objs)
             attrs == listAttr(obj)
         IN  IF attrs.isNone THEN <<>>
             ELSE LET obj_data == ObjData(st, obj, attrs.names, direction)
                      rest == ObjectsData_break(st, Tail(objs), direction)
                  IN  IF obj_data # <<>>
                      THEN <<[obj |-> obj, data |-> obj_data]>> \o rest
                      ELSE rest

\* objects_data of lines 44-76, in the order of the selection
RECURSIVE ObjectsData(_, _, _)
ObjectsData(st, objs, direction) ==
    IF objs = <<>> THEN <<>>
    ELSE LET obj == Head(objs)
             attrs == listAttr(obj)
             rest == ObjectsData(st, Tail(objs), direction)
         IN  IF attrs.isNone THEN rest
             ELSE LET obj_data == ObjData(st, obj, attrs.names, direction)
                  IN  IF obj_data # <<>>
                      THEN <<[obj |-> obj, data |-> obj_data]>> \o rest
                      ELSE rest

\* the MEL of lines 87-91, on the selection of that moment
SetKeySelected(st) ==
    [st EXCEPT !.keys = [o \in Objects |-> [a \in AllAttrs |->
        IF (\E i \in 1..Len(st.sel) : st.sel[i] = o) /\ Keyable(o, a)
        THEN {k \in st.keys[o][a] : k[1] # currentTime} \cup {<<currentTime, st.val[o][a]>>}
        ELSE st.keys[o][a]]]]

TickDrawSpecial(st) ==
    [st EXCEPT !.tds = [o \in Objects |-> [a \in AllAttrs |->
        IF (\E i \in 1..Len(st.sel) : st.sel[i] = o) /\ HasKey(st.keys[o][a], currentTime)
        THEN st.tds[o][a] \cup {currentTime}
        ELSE st.tds[o][a]]]]

mel_script(st) == TickDrawSpecial(SetKeySelected(st))

\* lines 82-84: setAttr and setKeyframe for every attribute of obj_data
RECURSIVE WriteAttrs(_, _, _, _)
WriteAttrs(st, o, data, todo) ==
    IF todo = {} THEN st
    ELSE LET a == CHOOSE x \in todo : TRUE
             s1 == setAttr(st, o, a, data[a])
             s2 == setKeyframe(s1, o, a, currentTime, data[a])
         IN  WriteAttrs(s2, o, data, todo \ {a})

\* lines 81-91 for one entry of objects_data
WriteObject(st, entry) ==
    LET s1 == select(<<entry.obj>>, st)
        s2 == WriteAttrs(s1, entry.obj, entry.data, DOMAIN entry.data)
    IN  IF color_checkbox THEN mel_script(s2) ELSE s2

\* the loop of line 80
RECURSIVE WriteAll(_, _)
WriteAll(st, data) ==
    IF data = <<>> THEN st
    ELSE WriteAll(WriteObject(st, Head(data)), Tail(data))

\* a slip of line 93: the selection is left as the loop set it
RestoreSelection_none(st, selected_objects) == st

\* line 93
RestoreSelection(st, selected_objects) == select(selected_objects, st)

\* apply_overshoot(direction) on the scene and selection st
ApplyResult(st, direction) ==
    LET selected_objects == st.sel
        objects_data == ObjectsData(st, selected_objects, direction)
        s1 == select(selected_objects, st)
        s2 == WriteAll(s1, objects_data)
    IN  RestoreSelection(s2, selected_objects)

\* History: the host state an invocation began with, kept for the properties
\* below; any other event clears it.
Now == [val |-> val, keys |-> keys, tds |-> tds, sel |-> selection, time |-> currentTime]
NoPre == [val |-> <<>>, keys |-> <<>>, tds |-> <<>>, sel |-> <<>>, time |-> None]

apply_overshoot(direction) ==
    /\ LET r == ApplyResult(Now, direction)
       IN  /\ val' = r.val
           /\ keys' = r.keys
           /\ tds' = r.tds
           /\ selection' = r.sel
    /\ pre' = Now
    /\ prevDir' = CASE lastOp = "overshoot_positive" -> 1
                    [] lastOp = "overshoot_negative" -> -1
                    [] OTHER -> 0
    /\ prevVal' = IF lastOp = "panel" THEN <<>> ELSE pre.val
    /\ napplied' = napplied + 1
    /\ UNCHANGED <<ui, currentTime>>

overshoot_positive ==
    /\ apply_overshoot(1)
    /\ lastOp' = "overshoot_positive"

overshoot_negative ==
    /\ apply_overshoot(-1)
    /\ lastOp' = "overshoot_negative"

(* ------------------------------ the panel ------------------------------ *)
\* an event other than a button press: the history is cleared
NoHistory ==
    /\ lastOp' = "panel"
    /\ pre' = NoPre
    /\ prevDir' = 0
    /\ prevVal' = <<>>

\* lines 102-106, on given widget values: the checkboxes after the loop
ToggledBoxes(all_value) == [i \in 1..3 |-> all_value]

\* a slip of toggle_all_checkboxes: the loop runs over translate_checkboxes alone
toggle_all_checkboxes_translate(all_value) ==
    /\ translate_checkboxes' = ToggledBoxes(all_value)
    /\ UNCHANGED rotate_checkboxes

toggle_all_checkboxes(all_value) ==
    /\ translate_checkboxes' = ToggledBoxes(all_value)
    /\ rotate_checkboxes' = ToggledBoxes(all_value)

\* the user clicks "Check All": the widget flips and its changeCommand runs
ClickCheckAll ==
    /\ check_all' = ~check_all
    /\ toggle_all_checkboxes(check_all')
    /\ NoHistory
    /\ UNCHANGED <<intensity_slider, color_checkbox, selection, currentTime, scene, napplied>>

\* create_window: an existing window is deleted, the widgets are built with
\* their construction values (slider 0.1, "Check All" true, "Green" false),
\* then toggle_all_checkboxes() runs (line 161) and gives the six channel
\* checkboxes the "Check All" value
create_window ==
    /\ intensity_slider' = InitialIntensity
    /\ check_all' = TRUE
    /\ color_checkbox' = FALSE
    /\ toggle_all_checkboxes(check_all')
    /\ NoHistory
    /\ UNCHANGED <<selection, currentTime, scene, napplied>>

\* the user clicks one of the six channel checkboxes
ClickTranslate(i) ==
    /\ translate_checkboxes' = [translate_checkboxes EXCEPT ![i] = ~@]
    /\ NoHistory
    /\ UNCHANGED <<intensity_slider, color_checkbox, check_all, rotate_checkboxes,
                   selection, currentTime, scene, napplied>>

ClickRotate(i) ==
    /\ rotate_checkboxes' = [rotate_checkboxes EXCEPT ![i] = ~@]
    /\ NoHistory
    /\ UNCHANGED <<intensity_slider, color_checkbox, check_all, translate_checkboxes,
                   selection, currentTime, scene, napplied>>

\* the user clicks the "Green" checkbox
ClickColor ==
    /\ color_checkbox' = ~color_checkbox
    /\ NoHistory
    /\ UNCHANGED <<intensity_slider, check_all, translate_checkboxes, rotate_checkboxes,
                   selection, currentTime, scene, napplied>>

\* the user drags the intensity slider
DragIntensity(i) ==
    /\ i # intensity_slider
    /\ intensity_slider' = i
    /\ NoHistory
    /\ UNCHANGED <<color_checkbox, check_all, translate_checkboxes, rotate_checkboxes,
                   selection, currentTime, scene, napplied>>

\* the user changes the selection in the host: up to MaxSel objects, picked
\* in the order of the outliner
Outliner == <<"grp", "cube", "ball">>
Position(o) == CHOOSE i \in 1..Len(Outliner) : Outliner[i] = o
Selections ==
    {s \in UNION {[1..n -> Objects] : n \in 0..MaxSel} :
        \A i, j \in 1..Len(s) : i < j => Position(s[i]) < Position(s[j])}

SelectObjects(s) ==
    /\ s # selection
    /\ selection' = s
    /\ NoHistory
    /\ UNCHANGED <<ui, currentTime, scene, napplied>>

(* --------------------------- specification ---------------------------- *)
Init ==
    /\ intensity_slider = InitialIntensity
    /\ color_checkbox = FALSE
    /\ check_all = TRUE
    /\ translate_checkboxes = ToggledBoxes(TRUE)
    /\ rotate_checkboxes = ToggledBoxes(TRUE)
    /\ selection \in Selections
    /\ currentTime \in Times
    /\ keys = [o \in Objects |-> [a \in AllAttrs |-> SceneKeys(o, a)]]
    /\ val = [o \in Objects |-> [a \in AllAttrs |->
                IF HasKey(SceneKeys(o, a), currentTime)
                THEN KeyValue(SceneKeys(o, a), currentTime)
                ELSE SceneValue(o, a)]]
    /\ tds = [o \in Objects |-> [a \in AllAttrs |-> {}]]
    /\ lastOp = "panel"
    /\ pre = NoPre
    /\ prevDir = 0
    /\ prevVal = <<>>
    /\ napplied = 0

\* The tool at work on the scene.  Of the six channel checkboxes the user
\* clicks "Translate X" and "Rotate Z" here; "Check All" moves all six.
Next ==
    \/ (napplied < MaxApply /\ overshoot_positive)
    \/ (napplied < MaxApply /\ overshoot_negative)
    \/ ClickCheckAll
    \/ create_window
    \/ ClickTranslate(1)
    \/ ClickRotate(3)
    \/ ClickColor
    \/ \E i \in 0..MaxIntensity : DragIntensity(i)
    \/ \E s \in Selections : SelectObjects(s)

Spec == Init /\ [][Next]_vars

\* The two buttons pressed again and again on a selection made beforehand.
NextPresses ==
    \/ (napplied < MaxPresses /\ overshoot_positive)
    \/ (napplied < MaxPresses /\ overshoot_negative)
    \/ ClickTranslate(1)
    \/ ClickColor
    \/ \E i \in 0..MaxIntensity : DragIntensity(i)

SpecPresses == Init /\ [][NextPresses]_vars

\* The panel alone: every widget, no button press.
NextPanel ==
    \/ ClickCheckAll
    \/ create_window
    \/ \E i \in 1..3 : ClickTranslate(i)
    \/ \E i \in 1..3 : ClickRotate(i)
    \/ ClickColor
    \/ \E i \in 0..MaxIntensity : DragIntensity(i)

SpecPanel == Init /\ [][NextPanel]_vars

(* ------------------------------ the claims ----------------------------- *)
\* The last event was a press of one of the two buttons: pre is the scene and
\* selection the invocation began with, the widgets are as it read them.
Applied == lastOp \in {"overshoot_positive", "overshoot_negative"}

\* d: +1 for the 'Positive Direction' button, -1 for 'Negative Direction'
D == IF lastOp = "overshoot_positive" THEN 1 ELSE -1

Selected(o) == \E i \in 1..Len(pre.sel) : pre.sel[i] = o

\* the keys of the channel before and after the current time, as the invocation found them
PrevTimes(o, a) == {t \in Times : t < currentTime /\ HasKey(pre.keys[o][a], t)}
NextTimes(o, a) == {t \in Times : t > currentTime /\ HasKey(pre.keys[o][a], t)}
HasPrev(o, a) == PrevTimes(o, a) # {}
HasNext(o, a) == NextTimes(o, a) # {}
P(o, a) == KeyValue(pre.keys[o][a], Max(PrevTimes(o, a)))
N(o, a) == KeyValue(pre.keys[o][a], Min(NextTimes(o, a)))
C(o, a) == pre.val[o][a]

\* a channel the invocation processed
Processed(o, a) ==
    /\ Selected(o)
    /\ a \in SixAttrs
    /\ Keyable(o, a)
    /\ checkBox(a)
    /\ HasPrev(o, a)
    /\ HasNext(o, a)

\* the keys of a curve away from the current time
OtherKeys(ks) == {k \in ks : k[1] # currentTime}

\* result = c + (n - p) * d * i, with i in tenths
IsOvershoot(v, o, a) ==
    IntensityDen * v = IntensityDen * C(o, a) + (N(o, a) - P(o, a)) * D * intensity_slider

C2_EqualValuesUntouched ==
    Applied => \A o \in Objects : \A a \in SixAttrs :
        (Selected(o) /\ HasPrev(o, a) /\ HasNext(o, a) /\ P(o, a) = N(o, a))
            => /\ val[o][a] = pre.val[o][a]
               /\ keys[o][a] = pre.keys[o][a]

\* C3: a channel without a previous or without a next keyframe is left
\* unmodified by apply_overshoot: no value set, no keyframe written.
C3_MissingNeighbourUntouched ==
    Applied => \A o \in Objects : \A a \in SixAttrs :
        (Selected(o) /\ (~HasPrev(o, a) \/ ~HasNext(o, a)))
            => /\ val[o][a] = pre.val[o][a]
               /\ keys[o][a] = pre.keys[o][a]

\* C4: the selection after apply_overshoot is the selection before it.
C4_SelectionRestored == Applied => selection = pre.sel

\* two objects were processed, each selected alone while its keys were written
C4_Witness ==
    /\ Applied
    /\ pre.sel = <<"cube", "ball">>
    /\ Processed("cube", "translateX") /\ Processed("ball", "translateX")
    /\ val["cube"]["translateX"] # pre.val["cube"]["translateX"]
    /\ val["ball"]["translateX"] # pre.val["ball"]["translateX"]
    /\ selection = <<"cube", "ball">>

\* C5: only a checked, keyable channel with a curve, of a selected object, is
\* processed; every other channel keeps its value and its keyframes.
C5_OtherChannelsUntouched ==
    Applied => \A o \in Objects : \A a \in AllAttrs :
        ~(Selected(o) /\ a \in SixAttrs /\ checkBox(a) /\ Keyable(o, a) /\ pre.keys[o][a] # {})
            => /\ val[o][a] = pre.val[o][a]
               /\ keys[o][a] = pre.keys[o][a]

\* C6: after apply_overshoot every processed channel has a key at the current
\* time holding the overshoot value, its value at the current time is that
\* value, the current time is unchanged and its keys at other times are as
\* before; with intensity 0 the value written is the channel's prior value.
C6_KeyWritten ==
    Applied =>
        /\ currentTime = pre.time
        /\ \A o \in Objects : \A a \in AllAttrs : Processed(o, a) =>
            /\ HasKey(keys[o][a], currentTime)
            /\ Cardinality({k \in keys[o][a] : k[1] = currentTime}) = 1
            /\ IsOvershoot(KeyValue(keys[o][a], currentTime), o, a)
            /\ val[o][a] = KeyValue(keys[o][a], currentTime)
            /\ OtherKeys(keys[o][a]) = OtherKeys(pre.keys[o][a])
            /\ intensity_slider = 0 => val[o][a] = pre.val[o][a]

\* a key is inserted between the two neighbours, which stay
C6_Witness ==
    /\ Applied
    /\ Processed("cube", "translateX")
    /\ ~HasKey(pre.keys["cube"]["translateX"], currentTime)
    /\ keys["cube"]["translateX"] = {<<1, 0>>, <<2, 11>>, <<3, 10>>}

BoxesFollowCheckAll ==
    \A i \in 1..3 : /\ translate_checkboxes[i] = check_all
                    /\ rotate_checkboxes[i] = check_all

\* C7: once create_window has finished, and again whenever "Check All" is
\* toggled (to true or to false), the six channel checkboxes equal the
\* "Check All" value; create_window leaves that value true.
C7_CheckAll ==
    /\ (check_all = TRUE /\ BoxesFollowCheckAll)
    /\ [][/\ ClickCheckAll => BoxesFollowCheckAll'
          /\ create_window => (check_all' /\ BoxesFollowCheckAll')]_vars

\* "Check All" is false and all six are false
C7_Witness ==
    /\ ~check_all
    /\ \A i \in 1..3 : ~translate_checkboxes[i] /\ ~rotate_checkboxes[i]

\* an object with no keyable translate/rotate attribute
NoKeyableAttrs(o) == ~\E a \in AllAttrs : Keyable(o, a) /\ MatchesPattern(a)
HasKeyableAttrs(o) == ~NoKeyableAttrs(o)

\* C8: a selected object without keyable translate/rotate attributes is
\* skipped, nothing is written on it, and the scene ends as it would have
\* with that object left out of the selection.
C8_SkippedObject ==
    Applied =>
        LET without == [pre EXCEPT !.sel = SelectSeq(pre.sel, HasKeyableAttrs)]
            r == ApplyResult(without, D)
        IN  /\ val = r.val /\ keys = r.keys /\ tds = r.tds
            /\ \A o \in Objects : (Selected(o) /\ NoKeyableAttrs(o)) =>
                    /\ val[o] = pre.val[o]
                    /\ keys[o] = pre.keys[o]
                    /\ tds[o] = pre.tds[o]

\* grp is skipped and cube, selected after it, is processed
C8_Witness ==
    /\ Applied
    /\ pre.sel = <<"grp", "cube">>
    /\ NoKeyableAttrs("grp")
    /\ Processed("cube", "translateX")
    /\ val["cube"]["translateX"] # pre.val["cube"]["translateX"]

\* C9: with the colour flag set, only the keyframes this invocation created
\* are tagged, on each object with a processed channel and on no other; with
\* the flag unset no keyframe is tagged.
C9_TagsOnlyNewKeys ==
    Applied =>
        /\ color_checkbox => \A o \in Objects : \A a \in AllAttrs :
            /\ \A t \in tds[o][a] \ pre.tds[o][a] :
                    /\ t = currentTime
                    /\ Processed(o, a) \/ ~HasKey(pre.keys[o][a], t)
            /\ Processed(o, a) => currentTime \in tds[o][a]
            /\ (~\E b \in AllAttrs : Processed(o, b)) => tds[o][a] = pre.tds[o][a]
        /\ ~color_checkbox => tds = pre.tds

====
